---- MODULE Spec2Model ----
(***************************************************************************)
(* Model of the image-stalk service: the SSRF validator                    *)
(* (ssrf-protection), the safe fetcher (url-fetcher), the profile page     *)
(* resolver, analyzeImageFromUrl which joins the two, the change detector  *)
(* / recheck route and the per-IP rate limiter of the analyze route.       *)
(*                                                                         *)
(* Strings that the code inspects character by character (hostnames, URL   *)
(* paths) are sequences of one-character strings.  A URL string is a       *)
(* record of the parts the WHATWG parser splits it into; ok = FALSE is a   *)
(* string that `new URL` rejects.                                          *)
(***************************************************************************)
EXTENDS Integers, Sequences, FiniteSets, TLC

(***************************************************************************)
(* Bounds of the model.                                                    *)
(***************************************************************************)
MaxRedirectsBound == 2
MaxSizeMBBound == 1
MaxChunks == 3
MaxTransportHops == 1
MaxRechecks == 2
MaxRequests == 4
MaxTicks == 2
MaxRateLimit == 2
MaxValidateCalls == 2

(***************************************************************************)
(* Characters and strings.                                                 *)
(***************************************************************************)
UpperChars == <<"A","B","C","D","E","F","G","H","I","J","K","L","M",
                "N","O","P","Q","R","S","T","U","V","W","X","Y","Z">>
LowerChars == <<"a","b","c","d","e","f","g","h","i","j","k","l","m",
                "n","o","p","q","r","s","t","u","v","w","x","y","z">>

toLowerCaseChar(c) ==
    IF \E k \in 1..26 : UpperChars[k] = c
    THEN LowerChars[CHOOSE k \in 1..26 : UpperChars[k] = c]
    ELSE c

toLowerCase(s) == [i \in 1..Len(s) |-> toLowerCaseChar(s[i])]

StartsWith(s, p) == Len(s) >= Len(p) /\ SubSeq(s, 1, Len(p)) = p

EndsWith(s, p) == Len(s) >= Len(p) /\ SubSeq(s, Len(s) - Len(p) + 1, Len(s)) = p

DigitChars == <<"0","1","2","3","4","5","6","7","8","9">>

Digits == {"0","1","2","3","4","5","6","7","8","9"}

(***************************************************************************)
(* URL strings.                                                            *)
(***************************************************************************)
UrlString(protocol, username, password, host, path) ==
    [ok |-> TRUE, protocol |-> protocol, username |-> username,
     password |-> password, host |-> host, path |-> path]

NoURL == [ok |-> FALSE, protocol |-> "", username |-> "", password |-> "",
          host |-> <<>>, path |-> <<>>]

UrlGarbage == [ok |-> FALSE, protocol |-> "", username |-> "", password |-> "",
               host |-> <<>>, path |-> <<"h","t","t","p",":","/","/","[">>]

HostA == <<"a",".","e","x">>
HostB == <<"b",".","e","x">>
HostPrivate == <<"1","0",".","0",".","0",".","1">>
HostLocalhostMixed == <<"L","o","c","a","l","H","o","s","t">>

PathX == <<"/","x">>
PathY == <<"/","y">>

UrlA == UrlString("http:", "", "", HostA, PathX)
UrlB == UrlString("https:", "", "", HostB, PathY)
UrlPrivate == UrlString("http:", "", "", HostPrivate, PathX)
UrlLocalhost == UrlString("http:", "", "", HostLocalhostMixed, PathX)
UrlCreds == UrlString("https:", "user", "pass", HostA, PathX)
UrlFile == UrlString("file:", "", "", <<>>, <<"/","e","t","c">>)

InputUrls == {UrlA, UrlB, UrlPrivate, UrlLocalhost, UrlCreds, UrlFile, UrlGarbage}

\* new URL(s): the parsed URL; the parser lower-cases the host of an
\* http(s) URL.  Defined only for strings with ok = TRUE.
ParseURL(s) ==
    [protocol |-> s.protocol, username |-> s.username, password |-> s.password,
     hostname |-> toLowerCase(s.host), pathname |-> s.path]

\* URL.prototype.toString(): the serialised (normalised) string.
Href(p) == UrlString(p.protocol, p.username, p.password, p.hostname, p.pathname)

(***************************************************************************)
(* ssrf-protection                                                         *)
(***************************************************************************)
VARIABLES
    vLog,           \* the calls of validateSafeUrl made so far: input and verdict
    lastIndex       \* lastIndex of each RegExp object of BLOCKED_IP_PATTERNS

vvars == <<vLog, lastIndex>>

BLOCKED_HOSTNAMES ==
    { <<"l","o","c","a","l","h","o","s","t">>,
      <<"l","o","c","a","l","h","o","s","t",".","l","o","c","a","l","d","o","m","a","i","n">>,
      <<"0",".","0",".","0",".","0">>,
      <<"m","e","t","a","d","a","t","a",".","g","o","o","g","l","e",".","i","n","t","e","r","n","a","l">>,
      <<"1","6","9",".","2","5","4",".","1","6","9",".","2","5","4">> }

\* The Private Class B pattern written as /^172\.16\./.
MatchesPrivateClassB_SixteenOnly(h) ==
    StartsWith(h, <<"1","7","2",".","1","6",".">>)

\* /^172\.(1[6-9]|2[0-9]|3[01])\./
MatchesPrivateClassB(h) ==
    /\ StartsWith(h, <<"1","7","2",".">>)
    /\ Len(h) >= 7
    /\ h[7] = "."
    /\ \/ h[5] = "1" /\ h[6] \in {"6","7","8","9"}
       \/ h[5] = "2" /\ h[6] \in Digits
       \/ h[5] = "3" /\ h[6] \in {"0","1"}

\* The patterns of BLOCKED_IP_PATTERNS, in the order of the array.
PatternIds == 1..11

\* Pattern k matches h at index 0 (every pattern is anchored with ^).
PatternMatch(k, h) ==
    CASE k = 1 -> StartsWith(h, <<"1","2","7",".">>)
      [] k = 2 -> StartsWith(h, <<"1","0",".">>)
      [] k = 3 -> MatchesPrivateClassB(h)
      [] k = 4 -> StartsWith(h, <<"1","9","2",".","1","6","8",".">>)
      [] k = 5 -> StartsWith(h, <<"1","6","9",".","2","5","4",".">>)
      [] k = 6 -> h = <<":",":","1">>
      [] k = 7 -> StartsWith(h, <<"f","e","8","0",":">>)
      [] k = 8 -> StartsWith(h, <<"f","c","0","0",":">>)
      [] k = 9 -> StartsWith(h, <<"f","d","0","0",":">>)
      [] k = 10 -> h = <<"0",".","0",".","0",".","0">>
      [] k = 11 -> h = <<"2","5","5",".","2","5","5",".","2","5","5",".","2","5","5">>

\* The length of the text pattern k matches in h.
PatternMatchLength(k, h) ==
    CASE k = 1 -> 4
      [] k = 2 -> 3
      [] k = 3 -> 7
      [] k = 4 -> 8
      [] k = 5 -> 8
      [] k \in {7, 8, 9} -> 5
      [] OTHER -> Len(h)

\* The patterns with the global flag.
PatternFlags_Global == "g"

\* The flags of the regular expression literals: none.
PatternFlags == ""

\* RegExp.prototype.test for pattern k when its lastIndex is li: without the
\* g flag the search starts at index 0 and lastIndex is left alone; with it
\* the search starts at lastIndex, which then becomes the end of the match,
\* or 0 when nothing matches.
RegExpTest(k, h, li) ==
    IF PatternFlags = ""
    THEN [found |-> PatternMatch(k, h), lastIndex |-> li]
    ELSE IF li = 0 /\ PatternMatch(k, h)
    THEN [found |-> TRUE, lastIndex |-> PatternMatchLength(k, h)]
    ELSE [found |-> FALSE, lastIndex |-> 0]

\* for (const pattern of BLOCKED_IP_PATTERNS) if (pattern.test(lower)) return true
MatchesBlockedIpPattern(h) ==
    \E k \in PatternIds : RegExpTest(k, h, lastIndex[k]).found

isHostnameBlocked(hostname) ==
    LET lower == toLowerCase(hostname)
    IN  lower \in BLOCKED_HOSTNAMES \/ MatchesBlockedIpPattern(lower)

\* An error string: a message template and the values interpolated in it.
ErrorString(msg, u, n) == [msg |-> msg, url |-> u, n |-> n]

NoError == ErrorString("", NoURL, 0)

\* validateUrlStructure with only the file: test.
validateUrlStructure_FileOnly(s) ==
    IF ~s.ok
    THEN [threw |-> TRUE, error |-> ErrorString("Invalid URL format", NoURL, 0)]
    ELSE IF ParseURL(s).protocol = "file:"
    THEN [threw |-> TRUE, error |-> ErrorString("File protocol is not allowed", NoURL, 0)]
    ELSE [threw |-> FALSE, error |-> NoError]

\* validateUrlStructure: threw = TRUE stands for the SSRFError it throws.
validateUrlStructure(s) ==
    IF ~s.ok
    THEN [threw |-> TRUE, error |-> ErrorString("Invalid URL format", NoURL, 0)]
    ELSE IF ParseURL(s).protocol \notin {"http:", "https:"}
    THEN [threw |-> TRUE,
          error |-> ErrorString("Protocol ${protocol} is not allowed",
                                UrlString(ParseURL(s).protocol, "", "", <<>>, <<>>), 0)]
    ELSE IF ParseURL(s).protocol = "file:"
    THEN [threw |-> TRUE, error |-> ErrorString("File protocol is not allowed", NoURL, 0)]
    ELSE [threw |-> FALSE, error |-> NoError]

\* validateSafeUrl: the verdict; threw = TRUE would be an exception leaving
\* the function (everything it does is inside its try block).  The error of
\* a blocked host names parsedUrl.hostname.
validateSafeUrl(s) ==
    LET structure == validateUrlStructure(s)
    IN  IF structure.threw
        THEN [valid |-> FALSE, threw |-> FALSE, error |-> structure.error]
        ELSE IF isHostnameBlocked(ParseURL(s).hostname)
        THEN [valid |-> FALSE, threw |-> FALSE,
              error |-> ErrorString("Hostname ${hostname} is blocked (private/internal)",
                                    UrlString("", "", "", ParseURL(s).hostname, <<>>), 0)]
        ELSE IF ParseURL(s).username # "" \/ ParseURL(s).password # ""
        THEN [valid |-> FALSE, threw |-> FALSE,
              error |-> ErrorString("URLs with embedded credentials are not allowed", NoURL, 0)]
        ELSE [valid |-> TRUE, threw |-> FALSE, error |-> NoError]

\* The lastIndex of every pattern after validateSafeUrl(s): the loop of
\* isHostnameBlocked tests the patterns in order up to the first that matches.
LastIndexAfter(s) ==
    IF validateUrlStructure(s).threw
    THEN lastIndex
    ELSE LET lower == toLowerCase(ParseURL(s).hostname)
             hits == {k \in PatternIds : RegExpTest(k, lower, lastIndex[k]).found}
             tested(k) == hits = {} \/ \A j \in hits : k <= j
         IN  IF lower \in BLOCKED_HOSTNAMES
             THEN lastIndex
             ELSE [k \in PatternIds |->
                      IF tested(k) THEN RegExpTest(k, lower, lastIndex[k]).lastIndex
                      ELSE lastIndex[k]]

\* validateRedirectUrl that accepts every target.
validateRedirectUrl_AcceptAll(s) == TRUE

validateRedirectUrl(s) == validateSafeUrl(s).valid


(***************************************************************************)
(* State.  The first group is one call of fetchSafeUrl: its arguments, its *)
(* locals, the place it is suspended at (pc), and what the transport and   *)
(* the body reader have seen of it.                                        *)
(***************************************************************************)
VARIABLES
    url,            \* argument: the URL string
    maxSizeMB,      \* options.maxSizeMB
    maxRedirects,   \* options.maxRedirects
    pc,             \* "start" | "head" | "get" | "read" | "done" | "threw"
    currentUrl,
    redirectChain,
    redirectCount,
    getResponse,
    timer,          \* the armed abort timer: "none" | "head" | "get"
    requests,       \* every request put on the wire, in order
    validated,      \* the URL strings validateSafeUrl accepted in this call
    chunks,         \* sizes of the chunks retained
    totalSize,
    reader,         \* "none" | "locked" | "released"
    cancelled,      \* reader.cancel() was called
    result,         \* the FetchResult returned (when pc = "done")
    \* one call of resolveProfileImageUrl
    pageUrl,        \* argument: the URL string
    rpc,            \* "start" | "fetch" | "text" | "done" | "threw"
    pageTimer,      \* the 5 s abort timer is armed
    pageRequests,   \* every request put on the wire, in order
    resolved,       \* the value returned (when rpc = "done"); NoLocation is null
    \* the reports database and the recheck route
    reports,        \* reports table: id -> row
    events,         \* events table: report id -> its events, oldest first
    recheckCount,   \* calls of the recheck action so far
    lastRecheck,    \* the last call of the recheck action and its response
    \* the analyze route and its rate limiter
    now,            \* Date.now()
    ticks,          \* times the clock advanced
    rateLimit,      \* env.RATE_LIMIT_PER_MINUTE, parsed
    rateLimitMap,   \* ip -> {count, resetAt}
    handled,        \* calls of the analyze action so far
    admitted,       \* the calls checkRateLimit let through: ip, time, window end
    lastResponse    \* the last call of the analyze action and its response

fvars == <<url, maxSizeMB, maxRedirects, pc, currentUrl, redirectChain,
           redirectCount, getResponse, timer, requests,
           validated, chunks, totalSize, reader, cancelled, result>>

rvars == <<pageUrl, rpc, pageTimer, pageRequests, resolved>>

kvars == <<reports, events, recheckCount, lastRecheck>>

lvars == <<now, ticks, rateLimit, rateLimitMap, handled, admitted, lastResponse>>

vars == <<vvars, fvars, rvars, kvars, lvars>>

nonFetchVars == <<vvars, rvars, kvars, lvars>>

(***************************************************************************)
(* Headers and responses.                                                  *)
(***************************************************************************)
NoLocation == [kind |-> "none", url |-> NoURL, path |-> <<>>]
AbsLocation(u) == [kind |-> "abs", url |-> u, path |-> <<>>]
RelLocation(p) == [kind |-> "rel", url |-> NoURL, path |-> p]

Locations ==
    {NoLocation, RelLocation(PathY)}
        \cup {AbsLocation(u) : u \in {UrlB, UrlPrivate, UrlCreds, UrlFile, UrlGarbage}}

\* A content type is the sequence of its tokens; <<>> is an absent header.
NoContentType == <<>>
ContentTypes == {NoContentType, <<"image/", "png">>, <<"text/", "html">>,
                 <<"application/", "octet-stream">>, <<"binary/", "octet-stream">>}

\* A declared Content-Length; AbsentLength is an absent header.
AbsentLength == -1
MB == 1024 * 1024
DeclaredLengths == {AbsentLength, 1000, MaxSizeMBBound * MB + 1}

Headers(location, contentType, contentLength) ==
    [location |-> location, contentType |-> contentType, contentLength |-> contentLength]

EmptyHeaders == Headers(NoLocation, NoContentType, AbsentLength)

NoResponse == [status |-> 0, hasBody |-> FALSE, headers |-> EmptyHeaders]

RedirectStatuses == {301, 302, 303, 307, 308}

\* What a server may answer to a HEAD.  A redirect status exits the loop only
\* into the 'Too many redirects' return and a final status never has its
\* Location read, so the two families carry only the headers the code reads.
HeadResponses ==
    {[status |-> st, hasBody |-> FALSE, headers |-> Headers(loc, NoContentType, AbsentLength)] :
        st \in RedirectStatuses, loc \in Locations}
    \cup
    {[status |-> st, hasBody |-> FALSE, headers |-> Headers(NoLocation, ct, cl)] :
        st \in {200, 404}, ct \in ContentTypes, cl \in DeclaredLengths}

\* What arrives as the response of the GET (after the hops the transport
\* followed): hasBody = FALSE is a response whose body is null.
GetResponses ==
    {[status |-> st, hasBody |-> b, headers |-> Headers(NoLocation, <<"image/", "png">>, cl)] :
        st \in {200, 404}, b \in BOOLEAN, cl \in {AbsentLength, 1000}}

\* Response.ok
ResponseOk(resp) == resp.status >= 200 /\ resp.status <= 299

\* Sizes of the chunks reader.read() may deliver.
ChunkSizes == {1000, MB \div 2, MB}

\* Values a rejected fetch() or read() throws: an Error with a message, or
\* a value that is no Error.
TransportErrors == {[isError |-> TRUE, message |-> "fetch failed"],
                    [isError |-> FALSE, message |-> ""]}

AbortError == [isError |-> TRUE, message |-> "The operation was aborted"]

\* new URL(location, base) throws a TypeError for a string it cannot parse.
InvalidUrlTypeError == [isError |-> TRUE, message |-> "Invalid URL"]

Request(method, u, by) == [method |-> method, url |-> u, by |-> by]

(***************************************************************************)
(* url-fetcher: fetchSafeUrl                                               *)
(***************************************************************************)
FetchResult(success, bufferSize, headers, finalUrl, chain, status, error) ==
    [success |-> success, bufferSize |-> bufferSize, headers |-> headers,
     finalUrl |-> finalUrl, redirectChain |-> chain, status |-> status,
     error |-> error]

NoResult == FetchResult(FALSE, -1, EmptyHeaders, NoURL, <<>>, -1, NoError)

maxSizeBytes == maxSizeMB * 1024 * 1024

\* The result of the initial validation failure (lines 35-44).
InvalidUrlResult(u, validation) ==
    FetchResult(FALSE, -1, EmptyHeaders, u, <<u>>, 0,
                IF validation.error.msg # "" THEN validation.error
                ELSE ErrorString("URL validation failed", NoURL, 0))

\* A failure return that carries the headers and status of a response.
ResponseFailure(resp, error) ==
    FetchResult(FALSE, -1, resp.headers, currentUrl, redirectChain, resp.status, error)

\* A catch block that reports the argument alone instead of the chain walked.
CatchResult_OriginOnly(e) ==
    FetchResult(FALSE, -1, EmptyHeaders, url, <<url>>, 0,
                ErrorString(IF e.isError THEN e.message ELSE "Unknown fetch error",
                            NoURL, 0))

\* The result built by the catch block (lines 257-277).
CatchResult(e) ==
    FetchResult(FALSE, -1, EmptyHeaders, currentUrl, redirectChain, 0,
                ErrorString(IF e.isError THEN e.message ELSE "Unknown fetch error",
                            NoURL, 0))

\* A catch block that rethrows: the exception leaves fetchSafeUrl.
Catch_Rethrow(e) ==
    /\ pc' = "threw"
    /\ timer' = "none"
    /\ result' = result

\* The catch block: whatever is thrown inside the try becomes a result.
Catch(e) ==
    /\ pc' = "done"
    /\ timer' = "none"
    /\ result' = CatchResult(e)

\* A return statement; every timer was cleared by the finally before it.
Return(res) ==
    /\ pc' = "done"
    /\ timer' = "none"
    /\ result' = res

IsRedirectStatus(status) == status \in RedirectStatuses

\* new URL(location, currentUrl) is defined: the Location parses against the base.
Resolvable(location) == location.kind = "rel" \/ location.url.ok

\* new URL(location, currentUrl).toString()
ResolveUrl(location, base) ==
    IF location.kind = "rel"
    THEN Href([ParseURL(base) EXCEPT !.pathname = location.path])
    ELSE Href(ParseURL(location.url))

\* startsWith('image/') answering true for every type.
StartsWithImage_Any(contentType) == TRUE

StartsWithImage(contentType) == Len(contentType) >= 1 /\ contentType[1] = "image/"

IncludesOctetStream(contentType) ==
    \E i \in 1..Len(contentType) : contentType[i] = "octet-stream"

\* FetchStart without the initial validation.
FetchStart_NoValidation ==
    /\ pc = "start"
    /\ currentUrl' = url
    /\ redirectChain' = <<url>>
    /\ redirectCount' = 0
    /\ validated' = validated
    /\ timer' = "head"
    /\ requests' = Append(requests, Request("HEAD", url, "code"))
    /\ pc' = "head"
    /\ UNCHANGED <<nonFetchVars, url, maxSizeMB, maxRedirects, getResponse,
                   chunks, totalSize, reader, cancelled, result>>

\* Lines 33-78: validate the argument, then send the first HEAD.
FetchStart ==
    /\ pc = "start"
    /\ LET validation == validateSafeUrl(url)
       IN  IF ~validation.valid
           THEN /\ Return(InvalidUrlResult(url, validation))
                /\ UNCHANGED <<currentUrl, redirectChain, redirectCount, requests,
                               validated>>
           ELSE /\ currentUrl' = url
                /\ redirectChain' = <<url>>
                /\ redirectCount' = 0
                /\ validated' = validated \cup {url}
                /\ timer' = "head"
                /\ requests' = Append(requests, Request("HEAD", url, "code"))
                /\ pc' = "head"
                /\ UNCHANGED result
    /\ UNCHANGED <<nonFetchVars, url, maxSizeMB, maxRedirects, getResponse,
                   chunks, totalSize, reader, cancelled>>

\* The GET sent without a look at the declared size.
SizeGateAndGet_NoGate(resp) ==
    /\ timer' = "get"
    /\ requests' = Append(requests, Request("GET", currentUrl, "code"))
    /\ pc' = "get"
    /\ UNCHANGED result

\* Lines 161-188, after the content-type gate: the declared-size gate, then
\* the GET is sent.
SizeGateAndGet(resp) ==
    IF resp.headers.contentLength # AbsentLength
         /\ resp.headers.contentLength > maxSizeBytes
    THEN /\ Return(ResponseFailure(resp,
                ErrorString("File too large: ${contentLength} bytes (max ${maxSizeBytes})",
                            NoURL, resp.headers.contentLength)))
         /\ UNCHANGED requests
    ELSE /\ timer' = "get"
         /\ requests' = Append(requests, Request("GET", currentUrl, "code"))
         /\ pc' = "get"
         /\ UNCHANGED result

\* Lines 136-159: the loop was left.
AfterRedirectLoop(resp) ==
    IF redirectCount >= maxRedirects
    THEN /\ Return(ResponseFailure(resp, ErrorString("Too many redirects", NoURL, 0)))
         /\ UNCHANGED requests
    ELSE IF /\ resp.headers.contentType # NoContentType
            /\ ~StartsWithImage(resp.headers.contentType)
            /\ ~IncludesOctetStream(resp.headers.contentType)
    THEN /\ Return(ResponseFailure(resp,
                ErrorString("Invalid content type: ${contentType} (expected image/*)",
                            NoURL, 0)))
         /\ UNCHANGED requests
    ELSE SizeGateAndGet(resp)

\* Lines 89-133: one turn of the redirect loop, up to the next HEAD.
RedirectStep(resp) ==
    IF resp.headers.location.kind = "none"
    THEN /\ Return(ResponseFailure(resp,
                ErrorString("Redirect response missing Location header", NoURL, 0)))
         /\ UNCHANGED <<currentUrl, redirectChain, redirectCount, requests,
                        validated>>
    ELSE IF ~Resolvable(resp.headers.location)
    THEN /\ Catch(InvalidUrlTypeError)
         /\ UNCHANGED <<currentUrl, redirectChain, redirectCount, requests,
                        validated>>
    ELSE LET nextUrl == ResolveUrl(resp.headers.location, currentUrl)
         IN  IF ~validateRedirectUrl(nextUrl)
             THEN /\ Return(ResponseFailure(resp,
                        ErrorString("Redirect to blocked URL: ${nextUrl}", nextUrl, 0)))
                  /\ UNCHANGED <<currentUrl, redirectChain, redirectCount, requests,
                                 validated>>
             ELSE /\ currentUrl' = nextUrl
                  /\ redirectChain' = Append(redirectChain, nextUrl)
                  /\ redirectCount' = redirectCount + 1
                  /\ validated' = validated \cup {nextUrl}
                  /\ timer' = "head"
                  /\ requests' = Append(requests, Request("HEAD", nextUrl, "code"))
                  /\ UNCHANGED <<pc, result>>

\* HeadArrives with the loop guard redirectCount <= maxRedirects.
HeadArrives_OneMore(resp) ==
    /\ pc = "head"
    /\ IF IsRedirectStatus(resp.status) /\ redirectCount <= maxRedirects
       THEN RedirectStep(resp)
       ELSE /\ AfterRedirectLoop(resp)
            /\ UNCHANGED <<currentUrl, redirectChain, redirectCount, validated>>
    /\ UNCHANGED <<nonFetchVars, url, maxSizeMB, maxRedirects, getResponse, chunks,
                   totalSize, reader, cancelled>>

\* A HEAD response arrives (lines 76-172): the timer is cleared, then the
\* code runs to its next await or return.
HeadArrives(resp) ==
    /\ pc = "head"
    /\ IF IsRedirectStatus(resp.status) /\ redirectCount < maxRedirects
       THEN RedirectStep(resp)
       ELSE /\ AfterRedirectLoop(resp)
            /\ UNCHANGED <<currentUrl, redirectChain, redirectCount, validated>>
    /\ UNCHANGED <<nonFetchVars, url, maxSizeMB, maxRedirects, getResponse, chunks,
                   totalSize, reader, cancelled>>

\* fetch() rejects while a HEAD is in flight (lines 69-78, 124-133 -> catch).
HeadFails(e) ==
    /\ pc = "head"
    /\ Catch(e)
    /\ UNCHANGED <<nonFetchVars, url, maxSizeMB, maxRedirects, currentUrl, redirectChain,
                   redirectCount, getResponse, requests,
                   validated, chunks, totalSize, reader, cancelled>>

\* setTimeout(() => controller.abort(), timeoutMs) fires: the fetch in flight
\* rejects with an AbortError, which the catch block turns into a result.
TimerFires ==
    /\ timer # "none"
    /\ Catch(AbortError)
    /\ UNCHANGED <<nonFetchVars, url, maxSizeMB, maxRedirects, currentUrl, redirectChain,
                   redirectCount, getResponse, requests,
                   validated, chunks, totalSize, reader, cancelled>>

\* The URLs a redirect answered to the GET can send the transport to.
TransportTargets == {UrlA, UrlB, UrlPrivate}

TransportHops == Cardinality({i \in 1..Len(requests) : requests[i].by = "transport"})

\* redirect: 'follow' (line 184): the server answers the GET with a redirect
\* and the transport itself sends the GET to the target.
GetTransportRedirect(target) ==
    /\ pc = "get"
    /\ TransportHops < MaxTransportHops
    /\ requests' = Append(requests, Request("GET", target, "transport"))
    /\ UNCHANGED <<nonFetchVars, url, maxSizeMB, maxRedirects, pc, currentUrl, redirectChain,
                   redirectCount, getResponse, timer,
                   validated, chunks, totalSize, reader, cancelled, result>>

\* The GET response arrives (lines 186-215).
GetArrives(resp) ==
    /\ pc = "get"
    /\ getResponse' = resp
    /\ IF ~ResponseOk(resp)
       THEN /\ Return(ResponseFailure(resp, ErrorString("HTTP ${status}: ${statusText}",
                                                        NoURL, resp.status)))
            /\ UNCHANGED <<chunks, totalSize, reader>>
       ELSE IF ~resp.hasBody
       THEN /\ Return(ResponseFailure(resp, ErrorString("Response body is not readable",
                                                        NoURL, 0)))
            /\ UNCHANGED <<chunks, totalSize, reader>>
       ELSE /\ reader' = "locked"
            /\ chunks' = <<>>
            /\ totalSize' = 0
            /\ timer' = "none"
            /\ pc' = "read"
            /\ UNCHANGED result
    /\ UNCHANGED <<nonFetchVars, url, maxSizeMB, maxRedirects, currentUrl, redirectChain,
                   redirectCount, requests, validated,
                   cancelled>>

\* A rejected GET that is sent once more before the failure is reported.
GetFails_RetryOnce(e) ==
    /\ pc = "get"
    /\ IF Cardinality({i \in DOMAIN requests : requests[i].method = "GET"}) = 1
       THEN /\ requests' = Append(requests, Request("GET", currentUrl, "code"))
            /\ UNCHANGED <<pc, timer, result>>
       ELSE /\ Catch(e)
            /\ UNCHANGED requests
    /\ UNCHANGED <<nonFetchVars, url, maxSizeMB, maxRedirects, currentUrl, redirectChain,
                   redirectCount, getResponse,
                   validated, chunks, totalSize, reader, cancelled>>

\* fetch() rejects while the GET is in flight (lines 179-188 -> catch).
GetFails(e) ==
    /\ pc = "get"
    /\ Catch(e)
    /\ UNCHANGED <<nonFetchVars, url, maxSizeMB, maxRedirects, currentUrl, redirectChain,
                   redirectCount, getResponse, requests,
                   validated, chunks, totalSize, reader, cancelled>>

\* The limit applied to the chunk alone instead of the running total.
ExceedsLimit_ChunkOnly(total, chunk, limit) == chunk > limit

\* totalSize > maxSizeBytes (line 223), with the size of the chunk just read.
ExceedsLimit(total, chunk, limit) == total > limit

\* reader.read() delivers a chunk (lines 219-235).
ReadChunk(n) ==
    /\ pc = "read"
    /\ Len(chunks) < MaxChunks
    /\ totalSize' = totalSize + n
    /\ IF ExceedsLimit(totalSize + n, n, maxSizeBytes)
       THEN /\ cancelled' = TRUE
            /\ reader' = "released"
            /\ Return(ResponseFailure(getResponse,
                    ErrorString("File size exceeds ${maxSizeMB}MB limit", NoURL, maxSizeMB)))
            /\ UNCHANGED chunks
       ELSE /\ chunks' = Append(chunks, n)
            /\ UNCHANGED <<pc, timer, result, reader, cancelled>>
    /\ UNCHANGED <<nonFetchVars, url, maxSizeMB, maxRedirects, currentUrl, redirectChain,
                   redirectCount, getResponse, requests,
                   validated>>

RECURSIVE SumSeq(_)
SumSeq(s) == IF s = <<>> THEN 0 ELSE Head(s) + SumSeq(Tail(s))

\* reader.read() reports done (lines 220, 237-256): the chunks are copied
\* into one buffer of totalSize bytes.
ReadDone ==
    /\ pc = "read"
    /\ reader' = "released"
    /\ Return(FetchResult(TRUE, totalSize, getResponse.headers, currentUrl,
                          redirectChain, getResponse.status, NoError))
    /\ UNCHANGED <<nonFetchVars, url, maxSizeMB, maxRedirects, currentUrl, redirectChain,
                   redirectCount, getResponse, requests,
                   validated, chunks, totalSize, cancelled>>

\* A rejected read() that reaches the catch block past no finally.
ReadFails_NoFinally(e) ==
    /\ pc = "read"
    /\ Catch(e)
    /\ UNCHANGED <<nonFetchVars, url, maxSizeMB, maxRedirects, currentUrl, redirectChain,
                   redirectCount, getResponse, requests,
                   validated, chunks, totalSize, reader, cancelled>>

\* reader.read() rejects: finally releases the lock, then the catch block.
ReadFails(e) ==
    /\ pc = "read"
    /\ reader' = "released"
    /\ Catch(e)
    /\ UNCHANGED <<nonFetchVars, url, maxSizeMB, maxRedirects, currentUrl, redirectChain,
                   redirectCount, getResponse, requests,
                   validated, chunks, totalSize, cancelled>>

(***************************************************************************)
(* profile-resolver: resolveProfileImageUrl                                *)
(***************************************************************************)
ImageExtensions == { <<".","j","p","g">>, <<".","j","p","e","g">>, <<".","p","n","g">>,
                     <<".","g","i","f">>, <<".","w","e","b","p">>, <<".","a","v","i","f">> }

\* The text a URL string ends with.
UrlTail(s) == IF s.path # <<>> THEN s.path ELSE s.host

\* The match without the i flag.
EndsWithImageExtension_CaseSensitive(s) ==
    \E ext \in ImageExtensions : EndsWith(UrlTail(s), ext)

\* url.match(/\.(jpg|jpeg|png|gif|webp|avif)$/i)
EndsWithImageExtension(s) ==
    \E ext \in ImageExtensions : EndsWith(toLowerCase(UrlTail(s)), ext)

PathImage == <<"/","p",".","P","N","G">>
UrlImage == UrlString("https:", "", "", HostA, PathImage)
UrlPrivateImage == UrlString("http:", "", "", HostPrivate, PathImage)

UrlProfile == UrlString("http:", "", "", HostB, PathX)

\* A string that is no URL and ends in .gif; a URL that ends in png without
\* the dot.
UrlGarbageImage == [UrlGarbage EXCEPT !.path = <<"n","o","t"," ","a",".","g","i","f">>]
UrlNoDot == UrlString("http:", "", "", HostA, <<"/","x","p","n","g">>)

PageUrls == InputUrls \cup {UrlProfile, UrlImage, UrlPrivateImage, UrlGarbageImage, UrlNoDot}

\* contentType.includes('text/html')
IncludesTextHtml(contentType) ==
    \E i \in 1..(Len(contentType) - 1) :
        contentType[i] = "text/" /\ contentType[i + 1] = "html"

PageResponses ==
    {[status |-> st, hasBody |-> TRUE, headers |-> Headers(NoLocation, ct, AbsentLength)] :
        st \in {200, 404},
        ct \in {NoContentType, <<"text/", "html">>, <<"image/", "png">>}}

\* What the markup of a page holds: the content of its og:image and
\* twitter:image meta tags (NoLocation: no such tag) and its JSON-LD block.
LdKinds == {"none", "parse_error", "string", "object", "array", "graph", "no_image"}

HtmlPages ==
    [og : {NoLocation, AbsLocation(UrlB), RelLocation(PathImage), AbsLocation(UrlGarbage)},
     twitter : {NoLocation, AbsLocation(UrlA), RelLocation(PathY)},
     ldKind : LdKinds,
     ldImage : {AbsLocation(UrlPrivate)}]

\* Lines 266-337: the first markup that yields a value.
ExtractImage(html, base) ==
    IF html.og.kind = "abs" /\ html.og.url.ok
    THEN html.og
    ELSE IF html.og.kind = "rel"
    THEN AbsLocation(ResolveUrl(html.og, base))
    ELSE IF html.twitter.kind = "abs" /\ html.twitter.url.ok
    THEN html.twitter
    ELSE IF html.ldKind \in {"string", "object", "array", "graph"}
    THEN html.ldImage
    ELSE NoLocation

ResolveReturn(value) ==
    /\ rpc' = "done"
    /\ resolved' = value

\* Lines 228-251: the fast path, the validation, then the page fetch.
ResolveStart ==
    /\ rpc = "start"
    /\ IF EndsWithImageExtension(pageUrl)
       THEN /\ ResolveReturn(NoLocation)
            /\ UNCHANGED <<pageTimer, pageRequests>>
       ELSE IF ~validateSafeUrl(pageUrl).valid
       THEN /\ rpc' = "threw"
            /\ UNCHANGED <<pageTimer, pageRequests, resolved>>
       ELSE /\ pageTimer' = TRUE
            /\ pageRequests' = Append(pageRequests, Request("GET", pageUrl, "code"))
            /\ rpc' = "fetch"
            /\ UNCHANGED resolved
    /\ UNCHANGED <<vvars, fvars, kvars, lvars, pageUrl>>

PageTransportHops ==
    Cardinality({i \in 1..Len(pageRequests) : pageRequests[i].by = "transport"})

\* The page fetch follows redirects by itself (no redirect option is given).
PageTransportRedirect(target) ==
    /\ rpc = "fetch"
    /\ PageTransportHops < MaxTransportHops
    /\ pageRequests' = Append(pageRequests, Request("GET", target, "transport"))
    /\ UNCHANGED <<vvars, fvars, kvars, lvars, pageUrl, rpc, pageTimer, resolved>>

\* Lines 253-262: the response of the page fetch arrives.
PageArrives(resp) ==
    /\ rpc = "fetch"
    /\ pageTimer' = FALSE
    /\ IF ~ResponseOk(resp)
       THEN ResolveReturn(NoLocation)
       ELSE IF resp.headers.contentType = NoContentType
               \/ ~IncludesTextHtml(resp.headers.contentType)
       THEN ResolveReturn(NoLocation)
       ELSE rpc' = "text" /\ UNCHANGED resolved
    /\ UNCHANGED <<vvars, fvars, kvars, lvars, pageUrl, pageRequests>>

\* The page fetch rejects, or the 5 s timer aborts it: the catch returns null.
PageFetchFails ==
    /\ rpc = "fetch"
    /\ ResolveReturn(NoLocation)
    /\ UNCHANGED <<vvars, fvars, kvars, lvars, pageUrl, pageTimer, pageRequests>>

PageTimerFires ==
    /\ rpc = "fetch"
    /\ pageTimer
    /\ pageTimer' = FALSE
    /\ ResolveReturn(NoLocation)
    /\ UNCHANGED <<vvars, fvars, kvars, lvars, pageUrl, pageRequests>>

\* Lines 264-337: response.text() resolves and the markup is searched.
PageText(html) ==
    /\ rpc = "text"
    /\ ResolveReturn(ExtractImage(html, pageUrl))
    /\ UNCHANGED <<vvars, fvars, kvars, lvars, pageUrl, pageTimer, pageRequests>>

\* response.text() rejects: the catch returns null.
PageTextFails ==
    /\ rpc = "text"
    /\ ResolveReturn(NoLocation)
    /\ UNCHANGED <<vvars, fvars, kvars, lvars, pageUrl, pageTimer, pageRequests>>

ResolveInit ==
    /\ pageUrl \in PageUrls
    /\ rpc = "start"
    /\ pageTimer = FALSE
    /\ pageRequests = <<>>
    /\ resolved = NoLocation

ResolveIdle ==
    /\ pageUrl = NoURL
    /\ rpc = "idle"
    /\ pageTimer = FALSE
    /\ pageRequests = <<>>
    /\ resolved = NoLocation

ResolveNext ==
    \/ ResolveStart
    \/ \E target \in TransportTargets : PageTransportRedirect(target)
    \/ \E resp \in PageResponses : PageArrives(resp)
    \/ PageFetchFails
    \/ PageTimerFires
    \/ \E html \in HtmlPages : PageText(html)
    \/ PageTextFails


(***************************************************************************)
(* database, image-analyzer: recheckUrl, and the recheck route             *)
(***************************************************************************)
ReportIds == {"r1", "r2"}

\* headers['etag'] of a response that has no such header
Undefined == "undefined"

Hashes == {"h1", "h2"}
EtagValues == {Undefined, "e1", "e2"}
LastModifiedValues == {Undefined, "m1"}

\* What an AnalysisResult holds for the change detector.
AnalysisResult(inputType, sourceUrl, sha256, etag, lastModified) ==
    [input_type |-> inputType, source_url |-> sourceUrl, sha256 |-> sha256,
     etag |-> etag, lastModified |-> lastModified]

UrlResults ==
    {AnalysisResult("url", UrlA, h, e, m) :
        h \in Hashes, e \in EtagValues, m \in LastModifiedValues}

UploadResults == {AnalysisResult("upload", NoURL, h, Undefined, Undefined) : h \in Hashes}

NoAnalysisResult == AnalysisResult("", NoURL, "", Undefined, Undefined)

\* The outcome of analyzeImageFromUrl: it throws (ok = FALSE) or returns a result.
AnalysisOutcomes ==
    {[ok |-> FALSE, result |-> NoAnalysisResult]}
        \cup {[ok |-> TRUE, result |-> r] : r \in UrlResults}

NoReport == [exists |-> FALSE, input_type |-> "", source_url |-> NoURL,
             results_json |-> NoAnalysisResult]

Event(res, changeType) == [sha256 |-> res.sha256, change_type |-> changeType]

\* saveEvent that overwrites the report's latest event.
saveEvent_Overwrite(evts, reportId, res, changeType) ==
    [evts EXCEPT ![reportId] =
        IF @ = <<>> THEN <<Event(res, changeType)>>
        ELSE [@ EXCEPT ![Len(@)] = Event(res, changeType)]]

\* saveEvent (database, lines 54-78): INSERT INTO events.
saveEvent(evts, reportId, res, changeType) ==
    [evts EXCEPT ![reportId] = Append(@, Event(res, changeType))]

\* saveReport as INSERT OR REPLACE on the id: the row of an existing report
\* is replaced and ON DELETE CASCADE removes its events.
SaveReport_Replace(id, res) ==
    /\ reports' = [reports EXCEPT ![id] =
            [exists |-> TRUE, input_type |-> res.input_type,
             source_url |-> res.source_url, results_json |-> res]]
    /\ events' = [events EXCEPT ![id] =
            IF res.input_type = "url" THEN <<Event(res, "initial")>> ELSE <<>>]
    /\ UNCHANGED <<vvars, fvars, rvars, lvars, recheckCount, lastRecheck>>

\* saveReport (database, lines 18-49), called by the analyze route with the
\* result of a finished analysis; the result of a URL analysis always has
\* its http_headers, so the initial event depends on the input type alone.
SaveReport(id, res) ==
    /\ ~reports[id].exists
    /\ reports' = [reports EXCEPT ![id] =
            [exists |-> TRUE, input_type |-> res.input_type,
             source_url |-> res.source_url, results_json |-> res]]
    /\ events' = IF res.input_type = "url"
                 THEN saveEvent(events, id, res, "initial")
                 ELSE events
    /\ UNCHANGED <<vvars, fvars, rvars, lvars, recheckCount, lastRecheck>>

\* The comparison with the header tests first.
ClassifyChange_HeadersFirst(previous, current) ==
    IF current.etag # previous.etag \/ current.lastModified # previous.lastModified
    THEN "headers_changed"
    ELSE IF current.sha256 # previous.sha256
    THEN "content_changed"
    ELSE "unchanged"

\* recheckUrl, lines 146-157 of image-analyzer.ts: the change type.
ClassifyChange(previous, current) ==
    IF current.sha256 # previous.sha256
    THEN "content_changed"
    ELSE IF current.etag # previous.etag \/ current.lastModified # previous.lastModified
    THEN "headers_changed"
    ELSE "unchanged"

\* recheckUrl that reports an unchanged image as initial.
recheckUrl_UnchangedAsInitial(previousResult, outcome) ==
    IF previousResult.source_url = NoURL \/ ~outcome.ok
    THEN [threw |-> TRUE, result |-> NoAnalysisResult, changeType |-> ""]
    ELSE [threw |-> FALSE, result |-> outcome.result,
          changeType |-> IF ClassifyChange(previousResult, outcome.result) = "unchanged"
                         THEN "initial"
                         ELSE ClassifyChange(previousResult, outcome.result)]

\* recheckUrl: threw = TRUE when it throws.
recheckUrl(previousResult, outcome) ==
    IF previousResult.source_url = NoURL \/ ~outcome.ok
    THEN [threw |-> TRUE, result |-> NoAnalysisResult, changeType |-> ""]
    ELSE [threw |-> FALSE, result |-> outcome.result,
          changeType |-> ClassifyChange(previousResult, outcome.result)]

RecheckCall(id, status, previous, current, changeType) ==
    [report |-> id, status |-> status, previous |-> previous, current |-> current,
     changeType |-> changeType]

NoRecheck == RecheckCall("", 0, NoAnalysisResult, NoAnalysisResult, "")

\* POST /api/reports/:id/recheck: the whole action.  outcome is what the
\* re-analysis of the source URL does, dbOk whether the INSERT succeeds.
RecheckAction(id, outcome, dbOk) ==
    /\ recheckCount < MaxRechecks
    /\ recheckCount' = recheckCount + 1
    /\ LET report == reports[id]
           previousResult == report.results_json
           rechecked == recheckUrl(previousResult, outcome)
       IN  IF ~report.exists
           THEN /\ lastRecheck' = RecheckCall(id, 404, NoAnalysisResult, NoAnalysisResult, "")
                /\ UNCHANGED events
           ELSE IF report.input_type # "url" \/ report.source_url = NoURL
           THEN /\ lastRecheck' = RecheckCall(id, 400, NoAnalysisResult, NoAnalysisResult, "")
                /\ UNCHANGED events
           ELSE IF rechecked.threw \/ ~dbOk
           THEN /\ lastRecheck' = RecheckCall(id, 500, previousResult, NoAnalysisResult, "")
                /\ UNCHANGED events
           ELSE /\ events' = saveEvent(events, id, rechecked.result, rechecked.changeType)
                /\ lastRecheck' = RecheckCall(id, 200, previousResult, rechecked.result,
                                              rechecked.changeType)
    /\ UNCHANGED <<vvars, fvars, rvars, lvars, reports>>

RecheckInit ==
    /\ reports = [id \in ReportIds |-> NoReport]
    /\ events = [id \in ReportIds |-> <<>>]
    /\ recheckCount = 0
    /\ lastRecheck = NoRecheck

RecheckNext ==
    \/ \E id \in ReportIds, res \in UrlResults \cup UploadResults : SaveReport(id, res)
    \/ \E id \in ReportIds, outcome \in AnalysisOutcomes, dbOk \in BOOLEAN :
            RecheckAction(id, outcome, dbOk)

(***************************************************************************)
(* The analyze route: checkRateLimit and action                            *)
(***************************************************************************)
WINDOW_MS == 60000

ClientIPs == {"203.0.113.7", "unknown"}

NoEntry == [present |-> FALSE, count |-> 0, resetAt |-> 0]

\* checkRateLimit with the count compared by > instead of >=.
checkRateLimit_OffByOne(map, ip, limit, t) ==
    LET existing == map[ip]
    IN  IF ~existing.present \/ existing.resetAt < t
        THEN [allowed |-> TRUE,
              map |-> [map EXCEPT ![ip] = [present |-> TRUE, count |-> 1,
                                           resetAt |-> t + WINDOW_MS]]]
        ELSE IF existing.count > limit
        THEN [allowed |-> FALSE, map |-> map]
        ELSE [allowed |-> TRUE, map |-> [map EXCEPT ![ip].count = @ + 1]]

\* checkRateLimit as a sliding window: a refused request restarts the window.
checkRateLimit_RefusalExtends(map, ip, limit, t) ==
    LET existing == map[ip]
    IN  IF ~existing.present \/ existing.resetAt < t
        THEN [allowed |-> TRUE,
              map |-> [map EXCEPT ![ip] = [present |-> TRUE, count |-> 1,
                                           resetAt |-> t + WINDOW_MS]]]
        ELSE IF existing.count >= limit
        THEN [allowed |-> FALSE, map |-> [map EXCEPT ![ip].resetAt = t + WINDOW_MS]]
        ELSE [allowed |-> TRUE, map |-> [map EXCEPT ![ip].count = @ + 1]]

\* checkRateLimit (lines 134-150) at time t: the verdict and the map after it.
checkRateLimit(map, ip, limit, t) ==
    LET existing == map[ip]
    IN  IF ~existing.present \/ existing.resetAt < t
        THEN [allowed |-> TRUE,
              map |-> [map EXCEPT ![ip] = [present |-> TRUE, count |-> 1,
                                           resetAt |-> t + WINDOW_MS]]]
        ELSE IF existing.count >= limit
        THEN [allowed |-> FALSE, map |-> map]
        ELSE [allowed |-> TRUE, map |-> [map EXCEPT ![ip].count = @ + 1]]

\* What a request to the analyze action asks for and how its analysis ends.
RequestKinds == {"url_ok", "url_analysis_fails", "url_missing", "upload_ok",
                 "upload_rejected", "other_content_type"}

\* The response of the action to an admitted request (lines 168-252): the
\* status, whether analyzeImageFromUrl was called, whether saveReport ran.
AdmittedResponse(ip, kind) ==
    CASE kind = "url_ok" ->
            [ip |-> ip, status |-> 200, fetched |-> TRUE, saved |-> TRUE]
      [] kind = "url_analysis_fails" ->
            [ip |-> ip, status |-> 500, fetched |-> TRUE, saved |-> FALSE]
      [] kind = "upload_ok" ->
            [ip |-> ip, status |-> 200, fetched |-> FALSE, saved |-> TRUE]
      [] OTHER ->
            [ip |-> ip, status |-> 400, fetched |-> FALSE, saved |-> FALSE]

NoResponseYet == [ip |-> "", status |-> 0, fetched |-> FALSE, saved |-> FALSE]

\* POST /api/analyze: the whole action, for a request of client ip.
AnalyzeAction(ip, kind) ==
    /\ handled < MaxRequests
    /\ handled' = handled + 1
    /\ LET verdict == checkRateLimit(rateLimitMap, ip, rateLimit, now)
       IN  /\ rateLimitMap' = verdict.map
           /\ IF ~verdict.allowed
              THEN /\ lastResponse' = [ip |-> ip, status |-> 429, fetched |-> FALSE,
                                       saved |-> FALSE]
                   /\ UNCHANGED admitted
              ELSE /\ lastResponse' = AdmittedResponse(ip, kind)
                   /\ admitted' = Append(admitted,
                            [ip |-> ip, at |-> now, resetAt |-> verdict.map[ip].resetAt])
    /\ UNCHANGED <<vvars, fvars, rvars, kvars, now, ticks, rateLimit>>

TickSteps == {1, WINDOW_MS}

\* Time passes.
Tick(d) ==
    /\ ticks < MaxTicks
    /\ ticks' = ticks + 1
    /\ now' = now + d
    /\ UNCHANGED <<vvars, fvars, rvars, kvars, rateLimit, rateLimitMap, handled, admitted,
                   lastResponse>>

RateInit ==
    /\ now = 0
    /\ ticks = 0
    /\ rateLimit \in 1..MaxRateLimit
    /\ rateLimitMap = [ip \in ClientIPs |-> NoEntry]
    /\ handled = 0
    /\ admitted = <<>>
    /\ lastResponse = NoResponseYet

RateNext ==
    \/ \E ip \in ClientIPs, kind \in RequestKinds : AnalyzeAction(ip, kind)
    \/ \E d \in TickSteps : Tick(d)

(***************************************************************************)
(* Calls of validateSafeUrl by themselves.                                 *)
(***************************************************************************)
\* Decimal digits of n.
RECURSIVE Dec(_)
Dec(n) ==
    IF n < 10 THEN <<DigitChars[n + 1]>>
    ELSE Dec(n \div 10) \o <<DigitChars[(n % 10) + 1]>>

\* The dotted-decimal text of an IPv4 address.
Ipv4Text(o) == Dec(o[1]) \o <<".">> \o Dec(o[2]) \o <<".">> \o Dec(o[3]) \o <<".">> \o Dec(o[4])

\* Addresses inside the blocked ranges, at and next to their borders.
Ipv4Blocked ==
    { <<127,0,0,1>>, <<10,0,0,1>>, <<172,16,0,1>>, <<172,20,10,5>>,
      <<172,31,255,254>>, <<192,168,1,1>>, <<169,254,0,1>>, <<169,254,169,254>>,
      <<0,0,0,0>>, <<255,255,255,255>> }

Ipv4Public ==
    { <<8,8,8,8>>, <<172,15,0,1>>, <<172,32,0,1>>, <<192,169,0,1>> }

\* An IPv6 literal as it stands in a URL: between square brackets.
Ipv6Literal(text) == <<"[">> \o text \o <<"]">>

Ipv6Texts ==
    { <<":",":","1">>,
      <<"f","e","8","0",":",":","1">>, <<"f","e","b","f",":",":","1">>,
      <<"f","c","0","0",":",":","1">>, <<"f","d","1","2",":",":","1">>,
      <<"2","0","0","1",":","d","b","8",":",":","1">> }

HostNames ==
    { HostA, HostB, HostLocalhostMixed,
      <<"l","o","c","a","l","h","o","s","t">>,
      <<"m","e","t","a","d","a","t","a",".","g","o","o","g","l","e",".","i","n","t","e","r","n","a","l">> }

ValidatorHosts ==
    HostNames \cup {Ipv4Text(o) : o \in Ipv4Blocked \cup Ipv4Public}
              \cup {Ipv6Literal(t) : t \in Ipv6Texts}

\* The strings validateSafeUrl is called with.
ValidatorInputs ==
    {UrlString("http:", "", "", h, PathX) : h \in ValidatorHosts}
        \cup {UrlString("http:", "", "", h, PathY) :
                  h \in {HostA, HostPrivate, HostLocalhostMixed}}
        \cup {UrlString("https:", "", "", Ipv4Text(<<127,0,0,1>>), PathX),
              UrlString("https:", "user", "", HostA, PathX),
              UrlString("https:", "", "pass", HostA, PathY),
              UrlString("ftp:", "", "", HostA, PathX)}
        \cup InputUrls

\* A caller calls validateSafeUrl(s).
ValidateCall(s) ==
    /\ Len(vLog) < MaxValidateCalls
    /\ vLog' = Append(vLog, [url |-> s, verdict |-> validateSafeUrl(s)])
    /\ lastIndex' = LastIndexAfter(s)
    /\ UNCHANGED <<fvars, rvars, kvars, lvars>>

\* The module is loaded: no call yet, every pattern with lastIndex 0.
ValidateInit ==
    /\ vLog = <<>>
    /\ lastIndex = [k \in PatternIds |-> 0]

ValidateNext == \E s \in ValidatorInputs : ValidateCall(s)

RecheckIdle ==
    /\ reports = [id \in ReportIds |-> NoReport]
    /\ events = [id \in ReportIds |-> <<>>]
    /\ recheckCount = 0
    /\ lastRecheck = NoRecheck

RateIdle ==
    /\ now = 0
    /\ ticks = 0
    /\ rateLimit = 1
    /\ rateLimitMap = [ip \in ClientIPs |-> NoEntry]
    /\ handled = 0
    /\ admitted = <<>>
    /\ lastResponse = NoResponseYet

FetchIdle ==
    /\ url = NoURL
    /\ maxSizeMB = 1
    /\ maxRedirects = 1
    /\ pc = "idle"
    /\ currentUrl = NoURL
    /\ redirectChain = <<>>
    /\ redirectCount = 0
    /\ getResponse = NoResponse
    /\ timer = "none"
    /\ requests = <<>>
    /\ validated = {}
    /\ chunks = <<>>
    /\ totalSize = 0
    /\ reader = "none"
    /\ cancelled = FALSE
    /\ result = NoResult

FetchInit ==
    /\ url \in InputUrls
    /\ maxSizeMB \in 1..MaxSizeMBBound
    /\ maxRedirects \in 1..MaxRedirectsBound
    /\ pc = "start"
    /\ currentUrl = NoURL
    /\ redirectChain = <<>>
    /\ redirectCount = 0
    /\ getResponse = NoResponse
    /\ timer = "none"
    /\ requests = <<>>
    /\ validated = {}
    /\ chunks = <<>>
    /\ totalSize = 0
    /\ reader = "none"
    /\ cancelled = FALSE
    /\ result = NoResult

Init == FetchInit /\ ValidateInit /\ ResolveIdle /\ RecheckIdle /\ RateIdle

Next ==
    \/ FetchStart
    \/ \E resp \in HeadResponses : HeadArrives(resp)
    \/ \E e \in TransportErrors : HeadFails(e)
    \/ TimerFires
    \/ \E target \in TransportTargets : GetTransportRedirect(target)
    \/ \E resp \in GetResponses : GetArrives(resp)
    \/ \E e \in TransportErrors : GetFails(e)
    \/ \E n \in ChunkSizes : ReadChunk(n)
    \/ ReadDone
    \/ \E e \in TransportErrors : ReadFails(e)

Spec == Init /\ [][Next]_vars

(***************************************************************************)
(* The same call under fair scheduling: the event loop runs the call, and  *)
(* an armed abort timer fires unless it is cleared first.  Nothing is      *)
(* assumed of the server: it may stop responding at any point.             *)
(***************************************************************************)
LiveSpec ==
    /\ Init
    /\ [][Next]_vars
    /\ WF_vars(FetchStart)
    /\ WF_vars(TimerFires)

ResolveSpecInit == ResolveInit /\ ValidateInit /\ FetchIdle /\ RecheckIdle /\ RateIdle

ResolveSpec == ResolveSpecInit /\ [][ResolveNext]_vars

RecheckSpecInit == RecheckInit /\ ValidateInit /\ FetchIdle /\ ResolveIdle /\ RateIdle

RecheckSpec == RecheckSpecInit /\ [][RecheckNext]_vars

RateSpecInit == RateInit /\ ValidateInit /\ FetchIdle /\ ResolveIdle /\ RecheckIdle

RateSpec == RateSpecInit /\ [][RateNext]_vars

ValidateSpecInit == ValidateInit /\ FetchIdle /\ ResolveIdle /\ RecheckIdle /\ RateIdle

ValidateSpec == ValidateSpecInit /\ [][ValidateNext]_vars

(***************************************************************************)
(* image-analyzer: analyzeImageFromUrl, which calls the resolver and then  *)
(* fetchSafeUrl.                                                           *)
(***************************************************************************)
\* An analyzer that fetches the argument whatever the resolver returned.
targetUrl_ArgumentOnly == pageUrl

\* Lines 37-50: targetUrl is the argument, replaced by the value the
\* resolver returned when it returned one; a throw of the resolver is caught
\* and leaves the argument.
targetUrl ==
    IF rpc = "done" /\ resolved # NoLocation THEN resolved.url ELSE pageUrl

\* Line 53: once the resolver has returned or thrown, fetchSafeUrl is called
\* with targetUrl.
AnalyzeFetch ==
    /\ rpc \in {"done", "threw"}
    /\ pc = "idle"
    /\ url' = targetUrl
    /\ pc' = "start"
    /\ UNCHANGED <<nonFetchVars, maxSizeMB, maxRedirects, currentUrl, redirectChain,
                   redirectCount, getResponse, timer, requests, validated, chunks,
                   totalSize, reader, cancelled, result>>

\* The URL strings analyzeImageFromUrl is called with: a profile page, a
\* direct image, a private address and a string that is no URL.
AnalyzeUrls == {UrlProfile, UrlImage, UrlPrivate, UrlGarbage}

\* analyzeImageFromUrl is called with a URL string: the resolver is about to
\* start and fetchSafeUrl has not been called yet.
AnalyzeInit ==
    /\ pageUrl \in AnalyzeUrls
    /\ rpc = "start"
    /\ pageTimer = FALSE
    /\ pageRequests = <<>>
    /\ resolved = NoLocation
    /\ ValidateInit /\ FetchIdle /\ RecheckIdle /\ RateIdle

AnalyzeNext ==
    \/ ResolveNext
    \/ AnalyzeFetch
    \/ Next

AnalyzeSpec == AnalyzeInit /\ [][AnalyzeNext]_vars

(***************************************************************************)
(* Claims about fetchSafeUrl.                                              *)
(***************************************************************************)

\* C1: every URL that received a request (each HEAD, the GET, and each hop
\* the transport followed during the GET) was accepted by validateSafeUrl
\* in this call before the request was sent.
C1_EveryRequestValidated ==
    \A i \in 1..Len(requests) : requests[i].url \in validated

\* C2: when validateSafeUrl rejects the argument, no request is ever sent and
\* the call returns success=false with the validator's error, status 0, empty
\* headers, finalUrl = url and redirectChain = [url].
C2_RejectedInputNoNetwork ==
    ~validateSafeUrl(url).valid =>
        /\ requests = <<>>
        /\ pc \in {"start", "done"}
        /\ pc = "done" =>
              result = FetchResult(FALSE, -1, EmptyHeaders, url, <<url>>, 0,
                                   validateSafeUrl(url).error)

C2_Witness ==
    pc = "done" /\ ~validateSafeUrl(url).valid /\ ~result.success /\ result.status = 0

\* C3: when the response to the HEAD of the argument A is a redirect whose
\* Location resolves to a URL B that validateSafeUrl rejects, the call returns
\* at once with success=false, an error naming B, redirectChain [A] and
\* finalUrl A; the HEAD to A is the only request ever sent.
C3_BlockedFirstHop ==
    [][ /\ \A resp \in HeadResponses :
              ( /\ HeadArrives(resp)
                /\ redirectCount = 0
                /\ IsRedirectStatus(resp.status)
                /\ resp.headers.location.kind # "none"
                /\ Resolvable(resp.headers.location)
                /\ ~validateSafeUrl(ResolveUrl(resp.headers.location, url)).valid )
              => /\ pc' = "done"
                 /\ result'.success = FALSE
                 /\ result'.error = ErrorString("Redirect to blocked URL: ${nextUrl}",
                           ResolveUrl(resp.headers.location, url), 0)
                 /\ result'.redirectChain = <<url>>
                 /\ result'.finalUrl = url
                 /\ requests' = <<Request("HEAD", url, "code")>>
        /\ pc = "done" => requests' = requests ]_vars

C3_Witness ==
    /\ pc = "done"
    /\ redirectCount = 0
    /\ IsRedirectStatus(result.status)
    /\ result.headers.location = AbsLocation(UrlPrivate)
    /\ result.error.url = UrlPrivate
    /\ requests = <<Request("HEAD", url, "code")>>

\* C4: the chunks retained never total more than maxSizeMB*1024*1024; as soon
\* as the running counter exceeds the limit the reader is cancelled and the
\* call has returned the size-limit failure (so nothing more is read); the
\* buffer of a success result is within the limit.
C4_StreamWithinLimit ==
    /\ SumSeq(chunks) <= maxSizeBytes
    /\ totalSize > maxSizeBytes =>
          /\ cancelled
          /\ pc = "done"
          /\ ~result.success
          /\ result.error.msg = "File size exceeds ${maxSizeMB}MB limit"
    /\ cancelled => totalSize > maxSizeBytes
    /\ (pc = "done" /\ result.success) =>
          result.bufferSize = SumSeq(chunks) /\ result.bufferSize <= maxSizeBytes

C4_Witness ==
    /\ cancelled
    /\ getResponse.headers.contentLength = 1000
    /\ totalSize > maxSizeBytes
    /\ Len(chunks) >= 1

\* C5: every call of fetchSafeUrl eventually returns, also when the server
\* stops responding before a HEAD response, before the GET response or in
\* the middle of the body.
C5_EveryCallReturns == <>(pc = "done")

\* C6: no exception leaves fetchSafeUrl; every returned failure carries a
\* non-empty error, and a result is a success only when no failure occurred.
C6_NoExceptionEscapes ==
    /\ pc # "threw"
    /\ pc = "done" =>
          /\ ~result.success => result.error.msg # "" /\ result.bufferSize = -1
          /\ result.success =>
                /\ validateSafeUrl(url).valid
                /\ ResponseOk(getResponse) /\ getResponse.hasBody
                /\ ~cancelled /\ totalSize <= maxSizeBytes
                /\ result.error = NoError

C6_Witness ==
    pc = "done" /\ ~result.success /\ result.error.msg = "Unknown fetch error"

\* The requests of one method among reqs.
CountMethod(reqs, method) ==
    Cardinality({i \in DOMAIN reqs : reqs[i].method = method})

\* A content type the gate lets through: none declared, one that starts
\* with image/, or one that holds octet-stream.
PassesTypeGate(ct) ==
    \/ ct = <<>>
    \/ ct[1] = "image/"
    \/ \E i \in DOMAIN ct : ct[i] = "octet-stream"

C16_RedirectsBounded ==
    [][\A resp \in HeadResponses :
          HeadArrives(resp)
          => /\ CountMethod(requests', "HEAD") <= maxRedirects + 1
             /\ redirectCount' <= maxRedirects
             /\ Len(redirectChain') = redirectCount' + 1
             /\ (IsRedirectStatus(resp.status) /\ redirectCount = maxRedirects)
                => /\ pc' = "done"
                   /\ ~result'.success
                   /\ result'.error = ErrorString("Too many redirects", NoURL, 0)
                   /\ result'.redirectChain = redirectChain
                   /\ Len(result'.redirectChain) = maxRedirects + 1
                   /\ CountMethod(requests', "HEAD") = maxRedirects + 1
                   /\ CountMethod(requests', "GET") = 0]_vars

\* Two hops allowed, three HEADs sent, each answered with a redirect.
C16_Witness ==
    /\ pc = "done"
    /\ maxRedirects = 2
    /\ redirectCount = 2
    /\ IsRedirectStatus(result.status)
    /\ result.error.msg = "Too many redirects"
    /\ CountMethod(requests, "HEAD") = 3
    /\ CountMethod(requests, "GET") = 0

\* C20: a HEAD response that is not a redirect, after k accepted hops with
\* 0 <= k <= maxRedirects, never ends the call with 'Too many redirects'.
C20_EndedChainNotTooMany ==
    [][\A resp \in HeadResponses :
          (HeadArrives(resp) /\ ~IsRedirectStatus(resp.status)
              /\ redirectCount <= maxRedirects)
          => ~(pc' = "done" /\ result'.error.msg = "Too many redirects")]_vars

(***************************************************************************)
(* Claims about resolveProfileImageUrl.                                    *)
(***************************************************************************)
\* C7: resolveProfileImageUrl never throws: whatever fails, also a URL that
\* validateSafeUrl rejects, the call ends by returning (null on failure).
C7_ResolveNeverThrows == rpc # "threw"

\* The known image extensions, and a URL string whose last characters are a
\* dot and one of them in any letter case.
KnownExtensions ==
    { <<"j","p","g">>, <<"j","p","e","g">>, <<"p","n","g">>, <<"g","i","f">>,
      <<"w","e","b","p">>, <<"a","v","i","f">> }

EndsInKnownExtension(s) ==
    LET t == UrlTail(s)
    IN  \E e \in KnownExtensions :
            /\ Len(t) > Len(e)
            /\ t[Len(t) - Len(e)] = "."
            /\ toLowerCase(SubSeq(t, Len(t) - Len(e) + 1, Len(t))) = e

\* C17: for a URL string that ends in a known image extension, in any letter
\* case, resolveProfileImageUrl makes no network call and returns null.
C17_ImageUrlNoNetwork ==
    EndsInKnownExtension(pageUrl) =>
        /\ pageRequests = <<>>
        /\ ~pageTimer
        /\ rpc \in {"start", "done"}
        /\ rpc = "done" => resolved = NoLocation

\* http://10.0.0.1/p.PNG: null was returned and nothing was sent.
C17_Witness ==
    /\ pageUrl = UrlPrivateImage
    /\ rpc = "done"
    /\ resolved = NoLocation
    /\ pageRequests = <<>>

\* C18: every request resolveProfileImageUrl causes, the page fetch and each
\* redirect hop followed for it, goes to a URL that validateSafeUrl accepts.
C18_PageRequestsValidated ==
    \A i \in DOMAIN pageRequests : validateSafeUrl(pageRequests[i].url).valid

(***************************************************************************)
(* Claims about the recheck route.                                         *)
(***************************************************************************)
\* C8: a recheck that succeeds reports content_changed exactly when the
\* hashes of the previous and the current result differ, headers_changed
\* exactly when the hashes are equal and the etag or last-modified differs,
\* and unchanged exactly when hash, etag and last-modified are all equal.
C8_ChangeClassification ==
    lastRecheck.status = 200 =>
        LET p == lastRecheck.previous
            c == lastRecheck.current
            t == lastRecheck.changeType
            sameHash == c.sha256 = p.sha256
            sameHeaders == c.etag = p.etag /\ c.lastModified = p.lastModified
        IN  /\ t \in {"content_changed", "headers_changed", "unchanged"}
            /\ t = "content_changed" <=> ~sameHash
            /\ t = "headers_changed" <=> (sameHash /\ ~sameHeaders)
            /\ t = "unchanged" <=> (sameHash /\ sameHeaders)

\* A recheck found a different hash together with a different etag.
C8_Witness ==
    /\ lastRecheck.status = 200
    /\ lastRecheck.current.sha256 # lastRecheck.previous.sha256
    /\ lastRecheck.current.etag # lastRecheck.previous.etag
    /\ lastRecheck.changeType = "content_changed"

\* C9 as stated: every call of the recheck action on a URL-based report
\* appends exactly one event to the history of that report, whatever the
\* outcome of the re-fetch.
C9_EveryRecheckAppendsOne ==
    [][\A id \in ReportIds :
            ( /\ recheckCount' = recheckCount + 1
              /\ lastRecheck'.report = id
              /\ reports[id].exists
              /\ reports[id].input_type = "url" )
            => Len(events'[id]) = Len(events[id]) + 1]_vars

\* C9 amended: a call of the recheck action on a URL-based report appends
\* exactly one event (the new hash with its change type) to the history of
\* that report when it answers 200, and leaves the history as it was when
\* the re-fetch, the analysis or the insert fails (it answers 500); the
\* events already stored, and the histories of other reports, never change.
C9_RecheckAppendsOnSuccessOnly ==
    [][\A id \in ReportIds :
            ( /\ recheckCount' = recheckCount + 1
              /\ lastRecheck'.report = id
              /\ reports[id].exists
              /\ reports[id].input_type = "url" )
            => /\ lastRecheck'.status \in {200, 500}
               /\ lastRecheck'.status = 200 =>
                      events'[id] = Append(events[id],
                          Event(lastRecheck'.current, lastRecheck'.changeType))
               /\ lastRecheck'.status = 500 => events'[id] = events[id]
               /\ \A other \in ReportIds \ {id} : events'[other] = events[other]]_vars

\* A report rechecked twice, once with success and once with a failure: its
\* history holds the initial event and one more.
C9_Witness ==
    /\ recheckCount = 2
    /\ lastRecheck.status = 500
    /\ reports[lastRecheck.report].input_type = "url"
    /\ Len(events[lastRecheck.report]) = 2

(***************************************************************************)
(* Claims about the rate limiter of the analyze route.                     *)
(***************************************************************************)
\* C10 as stated: for every client IP and every interval of 60 seconds, at
\* most rateLimit requests of that IP are admitted in the interval.
C10_AnyIntervalWithinLimit ==
    \A i \in DOMAIN admitted :
        Cardinality({j \in DOMAIN admitted :
                        /\ admitted[j].ip = admitted[i].ip
                        /\ admitted[j].at >= admitted[i].at
                        /\ admitted[j].at < admitted[i].at + WINDOW_MS}) <= rateLimit

\* C10 amended: time is cut, per client IP, into fixed windows that open at
\* the first request after the previous window has ended and last 60
\* seconds; within one window at most rateLimit requests of that IP are
\* admitted, a request is refused exactly when its IP's window is still
\* open and already holds rateLimit admitted requests, and a refused request
\* is answered 429 without a fetch, without a saved report and without a
\* change to the limiter.
C10_WindowWithinLimit ==
    [][handled' = handled + 1 =>
        LET ip == lastResponse'.ip
            entry == rateLimitMap[ip]
            open == entry.present /\ ~(entry.resetAt < now)
            inWindow(adm, r) ==
                Cardinality({j \in DOMAIN adm : adm[j].ip = ip /\ adm[j].resetAt = r})
            full == open /\ inWindow(admitted, entry.resetAt) >= rateLimit
        IN  /\ \A j \in DOMAIN admitted' :
                  Cardinality({k \in DOMAIN admitted' :
                                  /\ admitted'[k].ip = admitted'[j].ip
                                  /\ admitted'[k].resetAt = admitted'[j].resetAt})
                      <= rateLimit
            /\ \A j \in DOMAIN admitted' :
                  /\ admitted'[j].resetAt - WINDOW_MS <= admitted'[j].at
                  /\ admitted'[j].at <= admitted'[j].resetAt
            /\ lastResponse'.status = 429 <=> full
            /\ full =>
                  /\ ~lastResponse'.fetched
                  /\ ~lastResponse'.saved
                  /\ admitted' = admitted
                  /\ rateLimitMap' = rateLimitMap
            /\ ~full => Len(admitted') = Len(admitted) + 1]_vars

\* A client that has used up its window is refused, and is admitted again
\* once the window has ended.
C10_Witness ==
    /\ rateLimit = 2
    /\ handled = 4
    /\ Len(admitted) = 3
    /\ \A j \in DOMAIN admitted : admitted[j].ip = admitted[1].ip
    /\ admitted[2].resetAt = admitted[1].resetAt
    /\ admitted[3].at > admitted[1].resetAt
    /\ lastResponse.status = 200

(***************************************************************************)
(* Claims about validateSafeUrl.                                           *)
(***************************************************************************)
\* A URL string that parses, with an http(s) protocol.
IsHttpUrl(s) == s.ok /\ ParseURL(s).protocol \in {"http:", "https:"}

\* The claims about validateSafeUrl are stated of the latest call in vLog:
\* every call is the latest one in the state that follows it.
\*
\* C11: a call of validateSafeUrl never throws; when it answers valid: true
\* the URL parses, its protocol is http: or https:, isHostnameBlocked is
\* false for its hostname and its username and password are empty; every
\* other input gets valid: false with an error.
C11_ValidMeansSafe ==
    \A i \in {Len(vLog)} \ {0} :
        LET s == vLog[i].url
            v == vLog[i].verdict
            safe == /\ IsHttpUrl(s)
                    /\ ~isHostnameBlocked(ParseURL(s).hostname)
                    /\ ParseURL(s).username = ""
                    /\ ParseURL(s).password = ""
        IN  /\ ~v.threw
            /\ v.valid <=> safe
            /\ ~v.valid => v.error.msg # ""

\* One accepted URL and, after it, file:///etc rejected.
C11_Witness ==
    /\ Len(vLog) = 2
    /\ vLog[1].verdict.valid
    /\ vLog[2].url = UrlFile
    /\ ~vLog[2].verdict.valid
    /\ vLog[2].verdict.error.msg = "Protocol ${protocol} is not allowed"

\* The value of a decimal digit, of a hexadecimal digit, of a numeral.
DigitValue(c) == CHOOSE d \in 0..9 : DigitChars[d + 1] = c

HexChars == <<"0","1","2","3","4","5","6","7","8","9","a","b","c","d","e","f">>

IsHexChar(c) == \E d \in 1..16 : HexChars[d] = c

HexDigitValue(c) == (CHOOSE d \in 1..16 : HexChars[d] = c) - 1

RECURSIVE DecValue(_)
DecValue(t) ==
    IF t = <<>> THEN 0
    ELSE 10 * DecValue(SubSeq(t, 1, Len(t) - 1)) + DigitValue(t[Len(t)])

RECURSIVE HexValue(_)
HexValue(t) ==
    IF t = <<>> THEN 0
    ELSE 16 * HexValue(SubSeq(t, 1, Len(t) - 1)) + HexDigitValue(t[Len(t)])

\* The four octets of a host written as a dotted-decimal IPv4 address;
\* <<>> for any other host.
Ipv4Octets(h) ==
    LET dots == {i \in 1..Len(h) : h[i] = "."}
    IN  IF Cardinality(dots) # 3 \/ \E i \in 1..Len(h) : h[i] \notin Digits \cup {"."}
        THEN <<>>
        ELSE LET d1 == CHOOSE i \in dots : \A j \in dots : i <= j
                 d3 == CHOOSE i \in dots : \A j \in dots : i >= j
                 d2 == CHOOSE i \in dots : i # d1 /\ i # d3
                 parts == << SubSeq(h, 1, d1 - 1), SubSeq(h, d1 + 1, d2 - 1),
                             SubSeq(h, d2 + 1, d3 - 1), SubSeq(h, d3 + 1, Len(h)) >>
             IN  IF \E k \in 1..4 : Len(parts[k]) \notin 1..3 \/ DecValue(parts[k]) > 255
                 THEN <<>>
                 ELSE [k \in 1..4 |-> DecValue(parts[k])]

\* The ranges 127/8, 10/8, 172.16/12, 192.168/16, 169.254/16 and the two
\* single addresses 0.0.0.0 and 255.255.255.255.
InBlockedIpv4Range(o) ==
    \/ o[1] = 127
    \/ o[1] = 10
    \/ o[1] = 172 /\ o[2] \in 16..31
    \/ o[1] = 192 /\ o[2] = 168
    \/ o[1] = 169 /\ o[2] = 254
    \/ o = <<0, 0, 0, 0>>
    \/ o = <<255, 255, 255, 255>>

\* C12: every http(s) URL whose host is localhost in any letter case, or a
\* dotted IPv4 address in 127/8, 10/8, 172.16/12, 192.168/16 or 169.254/16,
\* or 0.0.0.0, 255.255.255.255 or 169.254.169.254, gets valid: false.
C12_PrivateIpv4Rejected ==
    \A i \in {Len(vLog)} \ {0} :
        LET s == vLog[i].url
            o == Ipv4Octets(s.host)
        IN  ( /\ IsHttpUrl(s)
              /\ \/ toLowerCase(s.host) = <<"l","o","c","a","l","h","o","s","t">>
                 \/ o # <<>> /\ InBlockedIpv4Range(o) )
            => /\ ~vLog[i].verdict.valid
               /\ vLog[i].verdict.error.msg =
                      "Hostname ${hostname} is blocked (private/internal)"

\* 172.31.255.254, near the end of 172.16/12, rejected, then LocalHost.
C12_Witness ==
    /\ Len(vLog) = 2
    /\ Ipv4Octets(vLog[1].url.host) = <<172, 31, 255, 254>>
    /\ ~vLog[1].verdict.valid
    /\ vLog[2].url.host = HostLocalhostMixed
    /\ ~vLog[2].verdict.valid

\* The text of an IPv6 literal host, in lower case; <<>> for any other host.
Ipv6Text(h) ==
    IF Len(h) >= 3 /\ h[1] = "[" /\ h[Len(h)] = "]"
    THEN toLowerCase(SubSeq(h, 2, Len(h) - 1))
    ELSE <<>>

\* The first group of an IPv6 text that starts with hexadecimal digits.
FirstHextet(t) ==
    LET colons == {i \in 1..Len(t) : t[i] = ":"}
        first == CHOOSE i \in colons : \A j \in colons : i <= j
    IN  IF colons = {} \/ first = 1 \/ \E i \in 1..(first - 1) : ~IsHexChar(t[i])
        THEN -1
        ELSE HexValue(SubSeq(t, 1, first - 1))

\* ::1, fe80::/10 (first group fe80..febf), fc00::/7 (first group fc00..fdff)
InBlockedIpv6Range(t) ==
    \/ t = <<":",":","1">>
    \/ FirstHextet(t) \in 65152..65215
    \/ FirstHextet(t) \in 64512..65023

\* C13: every http(s) URL whose host is an IPv6 literal that is ::1, or lies
\* in fe80::/10 or in fc00::/7, gets valid: false.
C13_PrivateIpv6Rejected ==
    \A i \in {Len(vLog)} \ {0} :
        LET s == vLog[i].url
            t == Ipv6Text(s.host)
        IN  (IsHttpUrl(s) /\ t # <<>> /\ InBlockedIpv6Range(t))
            => ~vLog[i].verdict.valid

\* C19: two calls of validateSafeUrl on the same string, or on two URLs with
\* the same protocol, hostname, username and password (whatever their
\* paths), give the same valid flag and the same error.
C19_VerdictDependsOnOriginOnly ==
    \A i \in DOMAIN vLog, j \in {Len(vLog)} \ {0} :
        LET s == vLog[i].url
            t == vLog[j].url
            sameOrigin == /\ s.ok /\ t.ok
                          /\ ParseURL(s).protocol = ParseURL(t).protocol
                          /\ ParseURL(s).hostname = ParseURL(t).hostname
                          /\ ParseURL(s).username = ParseURL(t).username
                          /\ ParseURL(s).password = ParseURL(t).password
        IN  (s = t \/ sameOrigin)
            => /\ vLog[i].verdict.valid = vLog[j].verdict.valid
               /\ vLog[i].verdict.error = vLog[j].verdict.error

\* http://10.0.0.1/x and then http://10.0.0.1/y, both rejected by a pattern.
C19_Witness ==
    /\ Len(vLog) = 2
    /\ vLog[1].url = UrlPrivate
    /\ vLog[2].url = UrlString("http:", "", "", HostPrivate, PathY)
    /\ ~vLog[1].verdict.valid
    /\ ~vLog[2].verdict.valid

(***************************************************************************)
(* Claims about the redirect chain, the reader and the order of requests   *)
(* of fetchSafeUrl.                                                        *)
(***************************************************************************)
\* The URLs of the HEAD requests among reqs, in the order they were sent.
HeadUrls(reqs) ==
    LET heads == SelectSeq(reqs, LAMBDA r : r.method = "HEAD")
    IN  [i \in 1..Len(heads) |-> heads[i].url]

\* C21: at every point of a call that passed the initial validation, and in
\* the result it returns, redirectChain starts with the argument, holds one
\* further entry per accepted hop in the order visited (length = hops + 1 <=
\* maxRedirects + 1), holds only URLs validateSafeUrl accepts, and finalUrl
\* is its last entry; a failed call returns the chain walked so far.
C21_ChainIsTheWalk ==
    (pc \notin {"idle", "start"} /\ validateSafeUrl(url).valid) =>
        /\ redirectChain # <<>>
        /\ redirectChain[1] = url
        /\ Len(redirectChain) = redirectCount + 1
        /\ Len(redirectChain) <= maxRedirects + 1
        /\ redirectChain = HeadUrls(requests)
        /\ \A i \in DOMAIN redirectChain :
              i > 1 => validateSafeUrl(redirectChain[i]).valid
        /\ currentUrl = redirectChain[Len(redirectChain)]
        /\ pc = "done" =>
              /\ result.redirectChain = redirectChain
              /\ result.finalUrl = result.redirectChain[Len(result.redirectChain)]

\* The transport failed at the second HEAD: the chain of two is returned.
C21_Witness ==
    /\ pc = "done"
    /\ ~result.success
    /\ result.error.msg = "fetch failed"
    /\ result.redirectChain = <<UrlA, UrlB>>
    /\ result.finalUrl = UrlB
    /\ CountMethod(requests, "GET") = 0

\* C22: once the body reader was acquired, its lock is released before the
\* call returns, on every path: normal end of the stream, the size-limit
\* abort, and a read() that rejects.
C22_ReaderLockReleased ==
    /\ reader = "locked" => pc = "read"
    /\ (pc \in {"done", "threw"} /\ reader # "none") => reader = "released"
    /\ (pc = "done" /\ (result.success \/ cancelled)) => reader = "released"

\* read() rejected after a chunk was retained: the lock is released and the
\* catch block has built the result.
C22_Witness ==
    /\ pc = "done"
    /\ reader = "released"
    /\ ~cancelled
    /\ Len(chunks) >= 1
    /\ ~result.success
    /\ result.error.msg = "fetch failed"

\* The requests fetchSafeUrl itself put on the wire (not the hops the
\* transport followed during the GET).
CodeRequests(reqs) == SelectSeq(reqs, LAMBDA r : r.by = "code")

\* A HEAD response that passes the declared-size gate of a call with the
\* given byte limit.
PassesSizeGate(resp, limit) ==
    resp.headers.contentLength = AbsentLength \/ resp.headers.contentLength <= limit

\* C23 as stated, its part on the probes: every URL of the chain has been
\* probed (sent a HEAD) exactly once.
C23_EachUrlProbedOnce ==
    pc \notin {"idle", "start"} =>
        \A i \in DOMAIN redirectChain :
            Cardinality({j \in DOMAIN requests :
                            /\ requests[j].method = "HEAD"
                            /\ requests[j].url = redirectChain[i]}) = 1

\* C23 amended: the requests of one call are sequential and none is a retry.
\* A request is sent only when the call starts or when the response to the
\* request before it is handled; fetchSafeUrl issues the GET at most once,
\* as its last request, from the handling of a HEAD response that is not a
\* redirect and passes the content-type and declared-size gates; every entry
\* of the chain is probed by exactly one HEAD (a URL that a redirect cycle
\* enters twice is probed once per entry); once the call has returned, no
\* further request is sent.
C23_SequentialNoRetry ==
    [][ /\ Len(requests') <= Len(requests) + 1
        /\ SubSeq(requests', 1, Len(requests)) = requests
        /\ requests' # requests =>
              /\ pc \in {"start", "head", "get"}
              /\ pc = "head" => \E resp \in HeadResponses : HeadArrives(resp)
              /\ pc = "get" => requests'[Len(requests')].by = "transport"
        /\ CountMethod(CodeRequests(requests'), "GET") <= 1
        /\ \A i, j \in DOMAIN requests' :
              (i < j /\ requests'[i].method = "GET") => requests'[j].by = "transport"
        /\ ( /\ requests' # requests
             /\ requests'[Len(requests')] = Request("GET", currentUrl, "code") )
           => \E resp \in HeadResponses :
                 /\ HeadArrives(resp)
                 /\ ~IsRedirectStatus(resp.status)
                 /\ PassesTypeGate(resp.headers.contentType)
                 /\ PassesSizeGate(resp, maxSizeBytes)
        /\ pc' \notin {"idle", "start"} =>
              /\ Len(HeadUrls(requests')) = Len(redirectChain')
              /\ \A i \in DOMAIN redirectChain' :
                    HeadUrls(requests')[i] = redirectChain'[i]
        /\ pc \in {"done", "threw"} => requests' = requests ]_vars

\* A redirect cycle: b.ex redirects to itself, so it is in the chain twice
\* and was probed twice, once per entry, and the call ended without a GET.
C23_Witness ==
    /\ pc = "done"
    /\ redirectChain = <<UrlA, UrlB, UrlB>>
    /\ HeadUrls(requests) = <<UrlA, UrlB, UrlB>>
    /\ Len(requests) = 3
    /\ ~result.success

\* C29: in a success result, finalUrl is the URL that served the returned
\* bytes and headers: the last URL the GET transfer contacted.
C29_FinalUrlServedTheBytes ==
    (pc = "done" /\ result.success) =>
        /\ requests[Len(requests)].method = "GET"
        /\ result.finalUrl = requests[Len(requests)].url

(***************************************************************************)
(* Claims about the event history and successive rechecks.                 *)
(***************************************************************************)
\* s is an initial segment of t.
IsPrefix(s, t) == Len(s) <= Len(t) /\ SubSeq(t, 1, Len(s)) = s

\* C24: the event history of a report is append-only: no operation (saving
\* a report, saving an event, the recheck action with its read of the
\* report) modifies or deletes an existing event; the events of a report
\* only grow in number and earlier events keep their hash and change type.
C24_EventsAppendOnly ==
    [][\A id \in ReportIds :
          /\ IsPrefix(events[id], events'[id])
          /\ Len(events'[id]) <= Len(events[id]) + 1
          /\ \A i \in DOMAIN events[id] :
                /\ events'[id][i].sha256 = events[id][i].sha256
                /\ events'[id][i].change_type = events[id][i].change_type]_vars

\* A history of three events with two different hashes, the last appended
\* by a recheck that answered 200.
C24_Witness ==
    /\ Len(events["r1"]) = 3
    /\ events["r1"][1].sha256 = "h1"
    /\ events["r1"][2].sha256 = "h2"
    /\ events["r1"][3].sha256 = "h1"
    /\ lastRecheck.status = 200
    /\ lastRecheck.report = "r1"

\* C30: for every URL-based report, after saveReport and any number of
\* rechecks, the history holds exactly one event of type initial, it is the
\* first event, and no recheck appends an event of type initial.
C30_OneInitialEventFirst ==
    /\ \A id \in ReportIds :
          (reports[id].exists /\ reports[id].input_type = "url") =>
              /\ events[id] # <<>>
              /\ events[id][1].change_type = "initial"
              /\ \A i \in DOMAIN events[id] :
                    events[id][i].change_type = "initial" => i = 1
    /\ lastRecheck.changeType # "initial"
    /\ \A id \in ReportIds : ~reports[id].exists => events[id] = <<>>

\* The initial event followed by an unchanged and a headers_changed recheck.
C30_Witness ==
    /\ reports["r2"].exists
    /\ Len(events["r2"]) = 3
    /\ events["r2"][1].change_type = "initial"
    /\ events["r2"][2].change_type = "unchanged"
    /\ events["r2"][3].change_type = "headers_changed"
    /\ recheckCount = 2

\* C28: when two successive rechecks of the same report observe the same
\* content hash, etag and last-modified, the second one is classified
\* unchanged: each recheck is compared with what the check before it saw.
C28_SameObservationUnchanged ==
    [][\A id \in ReportIds, outcome \in AnalysisOutcomes, dbOk \in BOOLEAN :
          ( /\ RecheckAction(id, outcome, dbOk)
            /\ lastRecheck.status = 200
            /\ lastRecheck.report = id
            /\ lastRecheck'.status = 200
            /\ outcome.result.sha256 = lastRecheck.current.sha256
            /\ outcome.result.etag = lastRecheck.current.etag
            /\ outcome.result.lastModified = lastRecheck.current.lastModified )
          => lastRecheck'.changeType = "unchanged"]_vars

(***************************************************************************)
(* Claims about the rate limiter and the routes that fetch.                *)
(***************************************************************************)
\* C25: for each IP the limiter is a fixed 60-second window: a refused
\* request changes neither the count nor the window end of the IP; requests
\* inside the window do not move its end; the first request of the IP that
\* arrives after the window end is admitted and opens a new window with
\* count 1, so a throttled client is admitted again once its window passed.
C25_FixedWindowReopens ==
    [][\A ip \in ClientIPs, kind \in RequestKinds :
          AnalyzeAction(ip, kind) =>
              LET existing == rateLimitMap[ip]
              IN  /\ lastResponse'.status = 429 => rateLimitMap' = rateLimitMap
                  /\ (existing.present /\ now <= existing.resetAt) =>
                        rateLimitMap'[ip].resetAt = existing.resetAt
                  /\ (existing.present /\ now > existing.resetAt) =>
                        /\ lastResponse'.status # 429
                        /\ rateLimitMap'[ip] =
                              [present |-> TRUE, count |-> 1, resetAt |-> now + 60000]
                  /\ \A other \in ClientIPs \ {ip} :
                        rateLimitMap'[other] = rateLimitMap[other]]_vars

\* A client admitted at 0, refused, and admitted again at 60001 in a new
\* window with count 1.
C25_Witness ==
    /\ now = WINDOW_MS + 1
    /\ lastResponse.ip = "unknown"
    /\ lastResponse.status # 429
    /\ rateLimitMap["unknown"] =
          [present |-> TRUE, count |-> 1, resetAt |-> 2 * WINDOW_MS + 1]
    /\ Len(admitted) = 2
    /\ admitted[1].ip = "unknown" /\ admitted[1].at = 0
    /\ handled = 3

\* C27: every request that makes the service send an outbound fetch for a
\* client goes through the per-IP rate limiter; here for the recheck route:
\* a recheck that fetched the image and answered 200 was counted by
\* checkRateLimit (an admitted request always changes the limiter's map).
C27_RecheckIsRateLimited ==
    [][\A id \in ReportIds, outcome \in AnalysisOutcomes, dbOk \in BOOLEAN :
          (RecheckAction(id, outcome, dbOk) /\ lastRecheck'.status = 200)
          => rateLimitMap' # rateLimitMap]_vars

(***************************************************************************)
(* Claims about analyzeImageFromUrl.                                       *)
(***************************************************************************)
\* C26: in analyzeImageFromUrl the resolution is optional: when the resolver
\* returns null or throws, fetchSafeUrl is called with the original URL;
\* when it returns a URL, with that URL; the image is requested only by
\* fetchSafeUrl, after the resolver has finished, and the target (like the
\* page the resolver reads) is validated before it is contacted.
C26_ResolutionOptional ==
    /\ pc # "idle" =>
          /\ rpc \in {"done", "threw"}
          /\ (rpc = "threw" \/ resolved = NoLocation) => url = pageUrl
          /\ (rpc = "done" /\ resolved # NoLocation) => url = resolved.url
    /\ requests # <<>> =>
          /\ requests[1] = Request("HEAD", url, "code")
          /\ validateSafeUrl(url).valid
    /\ pageRequests # <<>> =>
          /\ pageRequests[1] = Request("GET", pageUrl, "code")
          /\ validateSafeUrl(pageUrl).valid
    /\ (pc = "done" /\ result.success) =>
          /\ requests # <<>>
          /\ \E i \in DOMAIN requests : requests[i] = Request("GET", currentUrl, "code")

\* The profile page http://b.ex/x named https://b.ex/y in its og:image, and
\* the image was fetched from there.
C26_Witness ==
    /\ pageUrl = UrlProfile
    /\ rpc = "done"
    /\ resolved = AbsLocation(UrlB)
    /\ url = UrlB
    /\ pc = "done"
    /\ result.success

====
